---- MODULE Spec2Model ----
(***************************************************************************)
(* Credit prediction API (src/main.py): the artifact loading done by       *)
(* ModelManager.load_models at construction, the inference dispatcher      *)
(* ModelManager.predict, and the three HTTP handlers that read the loaded  *)
(* context.                                                                *)
(*                                                                         *)
(* Numbers produced by the models (predictions, per-class probabilities)   *)
(* are counted in tenths: the value v stands for v/10, so the literal      *)
(* thresholds 0.8, 0.6, 0.7 and 0.4 of the source are 8, 6, 7 and 4.       *)
(* The deserialized objects are opaque to the program: what they return    *)
(* or raise when called is the environment's choice.  In particular the    *)
(* vector returned by predict_proba is any vector of values, the program   *)
(* does not check that it sums to one.                                     *)
(***************************************************************************)
EXTENDS Integers, Sequences, FiniteSets, TLC

VARIABLES
    files,      \* the working directory: artifact name -> what the file holds
    pc,         \* "startup" | "idle" | "handled" | "crashed"
    models,     \* ModelManager.models: insertion-ordered mapping, a sequence of [key, obj]
    scaler,     \* ModelManager.scaler: None or Some(object)
    request,    \* the request being handled
    calls,      \* calls made while handling it, in order, each with its outcome
    response    \* what the handler returned or raised

vars == <<files, pc, models, scaler, request, calls, response>>

-----------------------------------------------------------------------------
(* Bounds of the model *)

MaxFeatures == 7        \* longest feature list a client sends
MaxFeatureVal == 1      \* feature values are 0..MaxFeatureVal
MaxVal == 10            \* model outputs are 0..MaxVal (tenths)

(* Constants of the program *)

RequiredFeatures == 6
HighThreshold == 8
MediumThreshold == 6
ApproveThreshold == 7
ReviewThreshold == 4

-----------------------------------------------------------------------------
(* Python values *)

None == << >>
Some(v) == <<v>>

\* Python truthiness of an Optional[float]: None and 0.0 are falsy.
Truthy(opt) == opt # None /\ opt[1] # 0

RECURSIVE Max(_)
Max(s) ==
    IF Len(s) = 1 THEN s[1]
    ELSE LET m == Max(Tail(s)) IN IF s[1] >= m THEN s[1] ELSE m

Range(s) == {s[i] : i \in 1..Len(s)}

Vals == 0..MaxVal
\* Per-class vectors: two classes that share the top value, or one class at
\* zero (the all-zero vector included).
ProbVectors == UNION {{<<a, 0>>, <<a, MaxVal - a>>} : a \in Vals}
Errs == {"ValueError: shape mismatch", "AttributeError: predict"}

FeatureLists ==
    {[i \in 1..n |-> v] : n \in 0..MaxFeatures, v \in 0..MaxFeatureVal}

-----------------------------------------------------------------------------
(* ModelManager.__init__ *)

model_keys == <<"logistic_regression", "random_forest", "gradient_boosting">>

model_names ==
    [k \in Range(model_keys) |->
        CASE k = "logistic_regression" -> "Regressão Logística"
          [] k = "random_forest" -> "Random Forest"
          [] k = "gradient_boosting" -> "Gradient Boosting"]

Artifacts == {"scaler"} \cup Range(model_keys)

\* What a file of the working directory holds: nothing, bytes that do not
\* deserialize, or an object (for a model: with or without predict_proba).
ScalerFiles == {"missing", "corrupt", "StandardScaler"}
ModelFiles == {"missing", "corrupt", "classifier", "regressor"}

Keys(ms) == [i \in 1..Len(ms) |-> ms[i].key]

-----------------------------------------------------------------------------
(* ModelManager.load_models *)

exists(fs, a) == fs[a] # "missing"

\* joblib.load: raises on a corrupt file, otherwise returns the object.
joblib_load(fs, a) ==
    IF fs[a] = "corrupt" THEN [raised |-> TRUE, obj |-> "corrupt"]
    ELSE [raised |-> FALSE, obj |-> fs[a]]

\* A variant that deserializes the scaler and drops it.
load_scaler_dropped(fs, st) == st

\* Lines 54-59.  st = [models, scaler, raised]; raised is an exception that
\* left load_models.
load_scaler(fs, st) ==
    IF st.raised \/ ~exists(fs, "scaler") THEN st
    ELSE LET r == joblib_load(fs, "scaler") IN
         IF r.raised THEN st       \* except Exception: logger.warning
         ELSE [st EXCEPT !.scaler = Some(r.obj)]

\* A variant without the try/except around joblib.load.
load_model_uncaught(fs, st, model_key) ==
    IF st.raised \/ ~exists(fs, model_key) THEN st
    ELSE LET r == joblib_load(fs, model_key) IN
         IF r.raised THEN [st EXCEPT !.raised = TRUE]
         ELSE [st EXCEPT !.models = Append(@, [key |-> model_key, obj |-> r.obj])]

\* Lines 62-68, one iteration of the loop.
load_model(fs, st, model_key) ==
    IF st.raised \/ ~exists(fs, model_key) THEN st
    ELSE LET r == joblib_load(fs, model_key) IN
         IF r.raised THEN st       \* except Exception: logger.error
         ELSE [st EXCEPT !.models = Append(@, [key |-> model_key, obj |-> r.obj])]

RECURSIVE load_loop(_, _, _)
load_loop(fs, st, i) ==
    IF i > Len(model_keys) THEN st
    ELSE load_loop(fs, load_model(fs, st, model_keys[i]), i + 1)

load_models(fs, st) == load_loop(fs, load_scaler(fs, st), 1)

-----------------------------------------------------------------------------
(* ModelManager.predict *)

Call(op, target, X, outcome) ==
    [op |-> op, target |-> target, X |-> X, outcome |-> outcome]

HTTPException(status_code, detail) == [status |-> status_code, detail |-> detail]

\* What the environment answers during one call of predict: which step raises
\* (if any) and with what description, what model.predict returns, and the
\* per-class vector model.predict_proba returns.
Steps == {"reshape", "transform", "predict", "predict_proba"}
Quiet == [fail : {"none"}, err : {"ok"}, pred : {0}, probs : {<<0, 0>>}]
Answers == [fail : {"none"}, err : {"ok"}, pred : Vals, probs : ProbVectors]
Faults == [fail : Steps, err : Errs, pred : {0}, probs : {<<0, 0>>}]
Envs == Answers \cup Faults

Outcome(env, step) == IF env.fail = step THEN env.err ELSE "ok"

\* A variant that falls back to the last loaded model.
select_model_last(ms, model_name) ==
    IF model_name # None /\ model_name[1] \in Range(Keys(ms))
    THEN [found |-> TRUE, name |-> model_name[1]]
    ELSE LET available == Keys(ms) IN
         IF available = << >> THEN [found |-> FALSE, name |-> "none"]
         ELSE [found |-> TRUE, name |-> available[Len(available)]]

\* Lines 73-77: the model actually used, or no model at all.
select_model(ms, model_name) ==
    IF model_name # None /\ model_name[1] \in Range(Keys(ms))
    THEN [found |-> TRUE, name |-> model_name[1]]
    ELSE LET available == Keys(ms) IN
         IF available = << >> THEN [found |-> FALSE, name |-> "none"]
         ELSE [found |-> TRUE, name |-> available[1]]

\* self.models[model_name]
lookup(ms, model_name) ==
    CHOOSE i \in 1..Len(ms) : ms[i].key = model_name

\* The scaler is an opaque transform; this one stands for any that changes
\* the row.
scaler_transform(X) == [r \in 1..Len(X) |-> [i \in 1..Len(X[r]) |-> 2 * X[r][i] + 1]]

hasattr_predict_proba(obj) == obj = "classifier"

\* Line 92.
score_of(probability, prediction) ==
    IF Truthy(probability) THEN probability[1] ELSE prediction

\* A variant whose lowest band has no label.
confidence_of_no_else(score) ==
    IF score >= HighThreshold THEN "Alto"
    ELSE IF score >= MediumThreshold THEN "Médio"
    ELSE ""

\* Line 93.
confidence_of(score) ==
    IF score >= HighThreshold THEN "Alto"
    ELSE IF score >= MediumThreshold THEN "Médio"
    ELSE "Baixo"

\* Lines 95-100.
recommendation_of(prediction) ==
    IF prediction >= ApproveThreshold THEN "Aprovação recomendada"
    ELSE IF prediction >= ReviewThreshold THEN "Analisar com cuidado"
    ELSE "Não recomendado"

\* A variant that derives the recommendation from the score.
build_result_by_score(model_name, prediction, probability) ==
    [prediction |-> prediction,
     probability |-> probability,
     confidence |-> confidence_of(score_of(probability, prediction)),
     model_used |-> model_names[model_name],
     recommendation |-> recommendation_of(score_of(probability, prediction))]

\* Lines 92-108: the result record.
build_result(model_name, prediction, probability) ==
    [prediction |-> prediction,
     probability |-> probability,
     confidence |-> confidence_of(score_of(probability, prediction)),
     model_used |-> model_names[model_name],
     recommendation |-> recommendation_of(prediction)]

\* A variant that drops the description of the error.
handle_exception_generic(err, cs) ==
    [response |-> HTTPException(500, "Erro"), calls |-> cs]

\* Lines 110-111: except Exception as e.
handle_exception(err, cs) ==
    [response |-> HTTPException(500, "Erro: " \o err), calls |-> cs]

\* Lines 79-108: the body of the try, with the model already selected.
inference(ms, sc, features, model_name, env, cs) ==
    LET X0 == <<features>>
        c1 == Append(cs, Call("reshape", "numpy", X0, Outcome(env, "reshape")))
    IN
    IF env.fail = "reshape" THEN handle_exception(env.err, c1) ELSE
    LET scaled == sc # None
        c2 == IF scaled
              THEN Append(c1, Call("transform", "scaler", X0, Outcome(env, "transform")))
              ELSE c1
    IN
    IF scaled /\ env.fail = "transform" THEN handle_exception(env.err, c2) ELSE
    LET X == IF scaled THEN scaler_transform(X0) ELSE X0
        model == ms[lookup(ms, model_name)].obj
        c3 == Append(c2, Call("predict", model_name, X, Outcome(env, "predict")))
    IN
    IF env.fail = "predict" THEN handle_exception(env.err, c3) ELSE
    LET prediction == env.pred
        proba == hasattr_predict_proba(model)
        c4 == IF proba
              THEN Append(c3, Call("predict_proba", model_name, X, Outcome(env, "predict_proba")))
              ELSE c3
    IN
    IF proba /\ env.fail = "predict_proba" THEN handle_exception(env.err, c4) ELSE
    LET probability == IF proba THEN Some(Max(env.probs)) ELSE None
    IN [response |-> [status |-> 200,
                      body |-> build_result(model_name, prediction, probability)],
        calls |-> c4]

\* A variant that raises the 503 inside the try.
predict_caught(ms, sc, features, model_name, env) ==
    LET cs == <<Call("ModelManager.predict", "model_manager", <<features>>, "ok")>>
        sel == select_model(ms, model_name)
    IN
    IF ~sel.found
    THEN handle_exception("Nenhum modelo disponível", cs)
    ELSE inference(ms, sc, features, sel.name, env, cs)

\* Lines 72-111.  The first call logged is the entry into the dispatcher.
predict(ms, sc, features, model_name, env) ==
    LET cs == <<Call("ModelManager.predict", "model_manager", <<features>>, "ok")>>
        sel == select_model(ms, model_name)
    IN
    IF ~sel.found
    THEN [response |-> HTTPException(503, "Nenhum modelo disponível"), calls |-> cs]
    ELSE inference(ms, sc, features, sel.name, env, cs)

-----------------------------------------------------------------------------
(* The HTTP layer *)

\* A variant that only asks for enough features.
validate_features_at_least(v) == Len(v) >= RequiredFeatures

\* Lines 25-30.
validate_features(v) == Len(v) = RequiredFeatures

\* model_name of a request body: left out (the default applies), null, a
\* known identifier or any other string.
Omitted == <<"<omitted>">>
BodyModelNames ==
    {Omitted, None, Some("unknown_model")} \cup {Some(k) : k \in Range(model_keys)}

\* Line 23: Field(default="logistic_regression").
model_name_field(sent) == IF sent = Omitted THEN Some("logistic_regression") ELSE sent

\* Lines 141-144 with the validation of lines 21-30 ahead of the handler:
\* the request, the calls made for it and what the client gets.
handle_predict(features, sent, env) ==
    LET model_name == model_name_field(sent) IN
    /\ request' = [via |-> "POST /predict", features |-> features, model_name |-> model_name]
    /\ IF ~validate_features(features)
       THEN /\ response' = HTTPException(422, "São necessárias 6 características")
            /\ calls' = << >>
       ELSE LET r == predict(models, scaler, features, model_name, env) IN
            /\ response' = r.response
            /\ calls' = r.calls

\* A variant that remembers the substitute under the requested identifier.
post_predict_caching(features, sent, env) ==
    LET model_name == model_name_field(sent)
        sel == select_model(models, model_name)
    IN
    /\ handle_predict(features, sent, env)
    /\ models' = IF validate_features(features) /\ sel.found
                    /\ model_name # None /\ sel.name # model_name[1]
                 THEN Append(models, [key |-> model_name[1],
                                      obj |-> models[lookup(models, sel.name)].obj])
                 ELSE models
    /\ UNCHANGED <<files, scaler>>

\* predict assigns to no attribute of model_manager.
post_predict(features, sent, env) ==
    /\ handle_predict(features, sent, env)
    /\ UNCHANGED <<files, models, scaler>>

-----------------------------------------------------------------------------
Init ==
    /\ files \in [Artifacts -> ScalerFiles \cup ModelFiles]
    /\ files["scaler"] \in ScalerFiles
    /\ \A k \in Range(model_keys) : files[k] \in ModelFiles
    /\ pc = "startup"
    /\ models = << >>
    /\ scaler = None
    /\ request = [via |-> "none"]
    /\ calls = << >>
    /\ response = [status |-> 0]

\* model_manager = ModelManager(), line 114.
Startup ==
    /\ pc = "startup"
    /\ LET st == load_models(files, [models |-> models, scaler |-> scaler, raised |-> FALSE]) IN
        /\ models' = st.models
        /\ scaler' = st.scaler
        /\ pc' = IF st.raised THEN "crashed" ELSE "idle"
    /\ UNCHANGED <<files, request, calls, response>>

PostPredict ==
    /\ pc = "idle"
    /\ \E features \in FeatureLists, sent \in BodyModelNames :
          \* a rejected request reaches no object: nothing is there to answer
          \E env \in IF validate_features(features) THEN Envs ELSE Quiet :
              post_predict(features, sent, env)
    /\ pc' = "handled"

\* Lines 124-130.
Health ==
    /\ pc = "idle"
    /\ request' = [via |-> "GET /health"]
    /\ calls' = << >>
    /\ response' = [status |-> 200,
                    body |-> [message |-> "API funcionando",
                              models_loaded |-> Len(models),
                              available_models |-> Keys(models)]]
    /\ pc' = "handled"
    /\ UNCHANGED <<files, models, scaler>>

\* Lines 132-139.
ListModels ==
    /\ pc = "idle"
    /\ request' = [via |-> "GET /models"]
    /\ calls' = << >>
    /\ response' = [status |-> 200,
                    body |-> [models |-> [i \in 1..Len(models) |->
                                 [key |-> models[i].key, name |-> model_names[models[i].key]]]]]
    /\ pc' = "handled"
    /\ UNCHANGED <<files, models, scaler>>

\* The handler has returned or raised and the response is on the wire: the
\* request, its locals and the result record are discarded.
SendResponse ==
    /\ pc = "handled"
    /\ request' = [via |-> "none"]
    /\ calls' = << >>
    /\ response' = [status |-> 0]
    /\ pc' = "idle"
    /\ UNCHANGED <<files, models, scaler>>

Next == Startup \/ PostPredict \/ Health \/ ListModels \/ SendResponse

Spec == Init /\ [][Next]_vars

-----------------------------------------------------------------------------
(* Vocabulary of the properties *)

Handled == pc = "handled"
Posted == Handled /\ request.via = "POST /predict"
\* ModelManager.predict was entered for the request.
Dispatched == Posted /\ calls # << >>
Success == Dispatched /\ response.status = 200

ModelObjects == {"classifier", "regressor"}
\* The identifiers whose artifact deserializes, in the fixed order.
LoadableKeys == SelectSeq(model_keys, LAMBDA k : files[k] \in ModelObjects)

CallsOf(ops) == {i \in 1..Len(calls) : calls[i].op \in ops}
ModelCalls == CallsOf({"predict", "predict_proba"})
Failed == {i \in 1..Len(calls) : calls[i].outcome # "ok"}

-----------------------------------------------------------------------------
\* C1: in every successful predict the confidence band is decided by the
\* reported probability whenever the model used supports predict_proba,
\* whatever that probability is, and by the raw prediction only otherwise;
\* the band is the highest from 0.8, the middle one from 0.6, else the lowest.
C1_BandFromProbability ==
    Success =>
        LET b == response.body
            used == calls[CHOOSE i \in CallsOf({"predict"}) : TRUE].target
            score == IF files[used] = "classifier" THEN b.probability[1] ELSE b.prediction
        IN b.confidence = IF score >= 8 THEN "Alto"
                          ELSE IF score >= 6 THEN "Médio" ELSE "Baixo"

\* C2: the recommendation of every successful predict follows the raw
\* prediction alone: approval from 0.7, review from 0.4 to below 0.7, negative
\* below 0.4, whatever the probability and the confidence are.
C2_RecommendationFromPrediction ==
    Success =>
        LET b == response.body IN
        b.recommendation = IF b.prediction >= 7 THEN "Aprovação recomendada"
                           ELSE IF b.prediction >= 4 THEN "Analisar com cuidado"
                           ELSE "Não recomendado"

\* A prediction of 0.7 approves while the probability puts the confidence in
\* the lowest band.
C2_Witness ==
    /\ Success
    /\ response.body.prediction = 7
    /\ response.body.probability = Some(5)
    /\ response.body.confidence = "Baixo"
    /\ response.body.recommendation = "Aprovação recomendada"

\* C3: a loaded requested identifier is the model invoked; an identifier that
\* is not loaded (unknown, known but unloaded, null), with at least one model
\* loaded, never gives 503: the first loaded model of the order
\* logistic_regression, random_forest, gradient_boosting is invoked, the call
\* succeeds unless a step of the inference raises, and model_used is the
\* display name of the model invoked.
C3_ModelSelection ==
    (Dispatched /\ LoadableKeys # << >>) =>
        LET want == request.model_name
            expected == IF want # None /\ want[1] \in Range(LoadableKeys)
                        THEN want[1] ELSE LoadableKeys[1]
        IN /\ response.status # 503
           /\ \A i \in ModelCalls : calls[i].target = expected
           /\ Failed = {} => response.status = 200
           /\ response.status = 200 =>
                 /\ CallsOf({"predict"}) # {}
                 /\ response.body.model_used = model_names[expected]

\* A null identifier with logistic_regression corrupt: random_forest answers.
C3_Witness ==
    /\ Success
    /\ request.model_name = None
    /\ files["logistic_regression"] = "corrupt"
    /\ files["gradient_boosting"] # "missing"
    /\ response.body.model_used = "Random Forest"

\* C4: with no model loaded every call of predict fails with 503 "no model
\* available", never with 500 and never with a result, and neither numpy,
\* the scaler nor a model is called.
C4_NoModelIs503 ==
    (Posted /\ Len(request.features) = 6 /\ LoadableKeys = << >>) =>
        /\ response = [status |-> 503, detail |-> "Nenhum modelo disponível"]
        /\ Len(calls) = 1
        /\ calls[1].op = "ModelManager.predict"

C4_Witness ==
    /\ Posted
    /\ models = << >>
    /\ scaler # None
    /\ request.model_name = Some("random_forest")
    /\ response.status = 503

\* C5: once a model is selected, a failure raised by the construction of the
\* matrix, the scaler or the model ends predict with one 500 whose detail
\* carries the description of that failure; no result record is returned
\* and no step is called twice.
C5_FailureIs500 ==
    (Dispatched /\ Failed # {}) =>
        /\ Failed = {Len(calls)}
        /\ response = [status |-> 500, detail |-> "Erro: " \o calls[Len(calls)].outcome]
        /\ \A i, j \in 1..Len(calls) : calls[i].op = calls[j].op => i = j

\* predict_proba raises after the scaler and predict have answered.
C5_Witness ==
    /\ Dispatched
    /\ Len(calls) = 5
    /\ calls[5].op = "predict_proba"
    /\ calls[5].outcome = "ValueError: shape mismatch"
    /\ response.status = 500

\* C6: load_models never raises; afterwards the mapping holds exactly the
\* known identifiers whose file was present and deserialized, in the fixed
\* order, each with its object, so a failure on one artifact does not stop
\* the later ones.
C6_LoadTolerant ==
    pc # "startup" =>
        /\ pc # "crashed"
        /\ Keys(models) = LoadableKeys
        /\ \A i \in 1..Len(models) : models[i].obj = files[models[i].key]
        /\ Len(models) = Cardinality({k \in Range(model_keys) : files[k] \in ModelObjects})

\* The scaler and the first model are corrupt, the second is missing, the
\* third is loaded.
C6_Witness ==
    /\ pc = "idle"
    /\ files["scaler"] = "corrupt"
    /\ files["logistic_regression"] = "corrupt"
    /\ files["random_forest"] = "missing"
    /\ Keys(models) = <<"gradient_boosting">>

\* C7: once startup loading has finished, no step (a /predict, /health or
\* /models request, successful or failing, fallback included) changes the
\* model mapping, the order of its keys or the scaler.
C7_ContextImmutable ==
    [][pc # "startup" => (models' = models /\ scaler' = scaler)]_vars

\* A request for an unloaded identifier has been served by the fallback.
C7_Witness ==
    /\ Success
    /\ request.model_name = Some("gradient_boosting")
    /\ files["gradient_boosting"] = "corrupt"
    /\ Keys(models) = <<"logistic_regression", "random_forest">>
    /\ scaler = Some("StandardScaler")

\* C8: a POST /predict whose feature list has another length than 6 is
\* rejected before the dispatcher is entered (no call, no 503, no 500), so
\* every entry into ModelManager.predict carries exactly 6 features.
C8_SixFeatures ==
    Posted =>
        /\ Len(request.features) # 6 => (response.status = 422 /\ calls = << >>)
        /\ \A i \in 1..Len(calls) : Len(calls[i].X[1]) = 6

C8_Witness ==
    /\ Posted
    /\ Len(request.features) = 7
    /\ models # << >>
    /\ response.status = 422

C10_MatrixFedToModel ==
    Dispatched =>
        LET raw == <<request.features>>
            loaded == files["scaler"] = "StandardScaler"
        IN /\ \A i \in ModelCalls :
                 calls[i].X = IF loaded THEN scaler_transform(raw) ELSE raw
           /\ \A i \in CallsOf({"transform"}) : loaded /\ calls[i].X = raw
           /\ (loaded /\ ModelCalls # {}) => CallsOf({"transform"}) # {}

\* A loaded scaler: the model's two operations both receive the transformed
\* row, which differs from the raw one.
C10_Witness ==
    /\ Success
    /\ files["scaler"] = "StandardScaler"
    /\ Len(calls) = 5
    /\ calls[4].X = calls[5].X
    /\ calls[5].X # <<request.features>>
====
